---- MODULE Spec2Model ----
(***************************************************************************)
(* Access-control pipeline of the skeleton service: JwtGuard (local and    *)
(* introspection variants), AuthService, RbacGuard and AbacGuard.          *)
(*                                                                         *)
(* A request arrives at an endpoint that lists its guards; the framework   *)
(* runs the guards in the listed order and stops at the first exception.   *)
(* Every guard reads its own inputs (metadata, request, configuration)     *)
(* when it runs; `call` records the inputs and the result of the guard     *)
(* that ran last.                                                          *)
(***************************************************************************)
EXTENDS Integers, Sequences, FiniteSets, TLC

VARIABLES
    policies,     \* AbacGuard.policies: Map<string, AbacPolicy>
    phase,        \* "startup" | "idle" | "guards" | "done"
    endpoint,     \* guards the endpoint declares, in the order of @UseGuards
    pending,      \* guards of the endpoint that have not run yet
    requestUser,  \* request.user
    outcome,      \* "none" | "handled" | "unauthorized" | "forbidden"
    call,         \* the guard invocation that ran last
    trace,        \* the guards that ran for the current request, with results
    tasks,        \* the rows of the tasks table, by id
    nextId,       \* the id the table gives to the next row
    taskCall,     \* the TasksService call that ran last
    inFlight      \* the TasksService calls in progress, by caller

guardVars == <<policies, phase, endpoint, pending, requestUser, outcome, call, trace>>

taskVars == <<tasks, nextId, taskCall, inFlight>>

vars == <<guardVars, taskVars>>

(***************************************************************************)
(* Bounds                                                                  *)
(***************************************************************************)
MaxNames == 2      \* longest policy-name list of an ABAC config
MaxEnvLen == 2     \* longest ALLOWED_IPS value, in symbols
MaxRequired == 2   \* longest required-role list
MaxRules == 1      \* most rules of a registered custom policy
MaxPriority == 1   \* highest priority of a registered custom policy

(***************************************************************************)
(* JavaScript values                                                       *)
(***************************************************************************)
\* undefined / null for string-valued fields
UNDEF == "undefined"

\* !x for a string-valued field
Falsy(x) == x \in {UNDEF, ""}

\* a || b for string-valued fields
Or(a, b) == IF Falsy(a) THEN b ELSE a

\* optional boolean: "true", "false" or undefined
Tri == {"true", "false", UNDEF}

Truthy(b) == b = "true"

\* optional value of another type: <<>> is undefined, <<v>> is v
None == <<>>
Some(v) == <<v>>
OrElse(m, d) == IF m = None THEN d ELSE m[1]

\* Character strings are sequences of one-character strings; NullStr is
\* null / undefined where a character string is expected.
NullStr == <<"null">>
EmptyStr == <<>>
FalsyStr(s) == s \in {NullStr, EmptyStr}

\* String.prototype.startsWith
StartsWith(s, p) == Len(s) >= Len(p) /\ SubSeq(s, 1, Len(p)) = p

\* String.prototype.substring(n)
Substring(s, n) == SubSeq(s, n + 1, Len(s))

\* all sequences over S of length lo..hi
SeqsOf(S, lo, hi) == UNION {[1..n -> S] : n \in lo..hi}

(***************************************************************************)
(* Principal                                                               *)
(***************************************************************************)
Roles == {"super-admin", "admin", "user"}

\* request.user === undefined
NoUser ==
    [defined |-> FALSE, id |-> UNDEF, roles |-> {}, permissions |-> {},
     tenantId |-> UNDEF]

NoCall == [guard |-> "none"]

(***************************************************************************)
(* JWT configuration: registerAs('jwt', ...)                               *)
(***************************************************************************)
\* a || b for character strings
OrStr(a, b) == IF FalsyStr(a) THEN b ELSE a

Digits == <<"0", "1", "2", "3", "4", "5", "6", "7", "8", "9">>

DigitValue(c) == CHOOSE n \in 0..9 : Digits[n + 1] = c

\* parseInt(s, 10), s a non-empty string of decimal digits
RECURSIVE ParseInt(_)
ParseInt(s) ==
    IF s = <<>> THEN 0
    ELSE 10 * ParseInt(SubSeq(s, 1, Len(s) - 1)) + DigitValue(s[Len(s)])

\* process.env.JWT_CLOCK_TOLERANCE || '30'
DefaultClockTolerance == <<"3", "0">>

\* a configuration that takes JWT_IGNORE_EXPIRATION as it is, whatever NODE_ENV
JwtConfigFactoryAnyEnvironment(env) ==
    [ignoreExpiration |-> env.JWT_IGNORE_EXPIRATION = "true",
     clockTolerance |-> ParseInt(OrStr(env.JWT_CLOCK_TOLERANCE, DefaultClockTolerance)),
     extractFromHeader |-> env.JWT_EXTRACT_FROM_HEADER # "false",
     extractFromQuery |-> env.JWT_EXTRACT_FROM_QUERY = "true",
     extractFromCookie |-> env.JWT_EXTRACT_FROM_COOKIE = "true",
     userIdClaimKey |-> Or(env.JWT_USER_ID_CLAIM_KEY, "sub")]

\* the JwtConfig that the factory builds from process.env
JwtConfigFactory(env) ==
    LET nodeEnv == Or(env.NODE_ENV, "development")
        isProduction == nodeEnv = "production"
    IN [ignoreExpiration |-> env.JWT_IGNORE_EXPIRATION = "true" /\ ~isProduction,
        clockTolerance |-> ParseInt(OrStr(env.JWT_CLOCK_TOLERANCE, DefaultClockTolerance)),
        extractFromHeader |-> env.JWT_EXTRACT_FROM_HEADER # "false",
        extractFromQuery |-> env.JWT_EXTRACT_FROM_QUERY = "true",
        extractFromCookie |-> env.JWT_EXTRACT_FROM_COOKIE = "true",
        userIdClaimKey |-> Or(env.JWT_USER_ID_CLAIM_KEY, "sub")]

(***************************************************************************)
(* JwtGuard, local verification                                            *)
(***************************************************************************)
Bearer == <<"B", "e", "a", "r", "e", "r", " ">>

\* extractTokenFromRequest that takes a header without the prefix as the token
ExtractTokenLocalRawHeader(cfg, req) ==
    IF cfg.extractFromHeader /\ ~FalsyStr(req.authorization)
    THEN IF StartsWith(req.authorization, Bearer)
         THEN Substring(req.authorization, 7)
         ELSE req.authorization
    ELSE IF cfg.extractFromQuery /\ ~FalsyStr(req.query) THEN req.query
    ELSE IF cfg.extractFromCookie /\ req.cookies.present /\ req.cookies.hasName
    THEN req.cookies.value
    ELSE NullStr

\* JwtGuard.extractTokenFromRequest (local variant)
ExtractTokenLocal(cfg, req) ==
    LET fromHeader ==
            IF cfg.extractFromHeader /\ ~FalsyStr(req.authorization)
               /\ StartsWith(req.authorization, Bearer)
            THEN Substring(req.authorization, 7)
            ELSE NullStr
        fromQuery ==
            IF FalsyStr(fromHeader) /\ cfg.extractFromQuery /\ ~FalsyStr(req.query)
            THEN req.query
            ELSE fromHeader
        fromCookie ==
            IF FalsyStr(fromQuery) /\ cfg.extractFromCookie
               /\ req.cookies.present /\ req.cookies.hasName
            THEN req.cookies.value
            ELSE fromQuery
    IN fromCookie

\* payload[key] for the configured user-id claim key
ClaimOf(payload, key) ==
    CASE key = "sub" -> payload.sub
      [] key = "uid" -> payload.uid
      [] OTHER -> UNDEF

\* createAuthenticatedUser that reads the id from `sub`, whatever the claim key
CreateAuthenticatedUserLocalSubOnly(payload, cfg) ==
    [defined |-> TRUE,
     id |-> payload.sub,
     roles |-> OrElse(payload.roles, {}),
     permissions |-> OrElse(payload.permissions, {}),
     tenantId |-> payload.tenant_id]

\* JwtGuard.createAuthenticatedUser (local variant)
CreateAuthenticatedUserLocal(payload, cfg) ==
    [defined |-> TRUE,
     id |-> Or(ClaimOf(payload, cfg.userIdClaimKey), payload.sub),
     roles |-> OrElse(payload.roles, {}),
     permissions |-> OrElse(payload.permissions, {}),
     tenantId |-> payload.tenant_id]

\* JwtGuard.validateToken (local variant): the message of the
\* UnauthorizedException it throws for each error of jwtService.verifyAsync
ValidateTokenMessage(errorName) ==
    CASE errorName = "TokenExpiredError" -> "Access token has expired"
      [] errorName = "JsonWebTokenError" -> "Invalid access token format"
      [] errorName = "NotBeforeError" -> "Access token not active yet"
      [] OTHER -> "Token validation failed"

\* the options validateToken passes to jwtService.verifyAsync
VerifyOptions(cfg) ==
    [ignoreExpiration |-> cfg.ignoreExpiration, clockTolerance |-> cfg.clockTolerance]

\* jwtService.verifyAsync(token, cleanOptions): "ok" or the name of the error
\* it throws. jwt.fault is what the verification finds wrong apart from the
\* `exp` claim, jwt.exp the `exp` claim, now the clock, both in seconds.
VerifyAsync(jwt, options, now) ==
    IF jwt.fault \in {"JsonWebTokenError", "NotBeforeError"} THEN jwt.fault
    ELSE IF /\ jwt.exp # None
            /\ ~options.ignoreExpiration
            /\ now >= jwt.exp[1] + options.clockTolerance
    THEN "TokenExpiredError"
    ELSE IF jwt.fault # "none" THEN jwt.fault
    ELSE "ok"

\* JwtGuard.canActivate (local variant), as the record of the invocation
\* verify: "ok" or the name of the error thrown by jwtService.verifyAsync
JwtLocalCall(cfg, req, verify, payload) ==
    LET token == ExtractTokenLocal(cfg, req)
    IN IF FalsyStr(token)
       THEN [guard |-> "JwtGuard", variant |-> "local", cfg |-> cfg, req |-> req,
             token |-> token, validated |-> FALSE, verify |-> "none",
             result |-> "unauthorized", message |-> "Access token is required",
             user |-> NoUser]
       ELSE IF verify # "ok"
       THEN [guard |-> "JwtGuard", variant |-> "local", cfg |-> cfg, req |-> req,
             token |-> token, validated |-> TRUE, verify |-> verify,
             result |-> "unauthorized", message |-> ValidateTokenMessage(verify),
             user |-> NoUser]
       ELSE [guard |-> "JwtGuard", variant |-> "local", cfg |-> cfg, req |-> req,
             token |-> token, validated |-> TRUE, verify |-> verify,
             result |-> "pass", message |-> "",
             user |-> CreateAuthenticatedUserLocal(payload, cfg)]

(***************************************************************************)
(* AuthService and JwtGuard, remote introspection                          *)
(***************************************************************************)
NonString == <<"non-string">>

\* JwtGuard.extractTokenFromRequest (introspection variant)
ExtractTokenIntrospect(extractFromHeader, authHeader) ==
    IF ~Truthy(extractFromHeader) THEN NullStr
    ELSE IF FalsyStr(authHeader) \/ authHeader = NonString THEN NullStr
    ELSE IF StartsWith(authHeader, Bearer) THEN Substring(authHeader, 7)
    ELSE authHeader

InactiveResponse ==
    [active |-> "false", sub |-> UNDEF, roles |-> None, isActive |-> UNDEF,
     error |-> TRUE]

\* introspectToken that returns the body of every response, whatever its status
IntrospectTokenAnyStatus(http, data) ==
    IF data # None
    THEN [active |-> data[1].active, sub |-> data[1].sub, roles |-> data[1].roles,
          isActive |-> data[1].isActive, error |-> FALSE]
    ELSE InactiveResponse

\* AuthService.introspectToken: http is the outcome of the POST, data the
\* body of a 2xx response (None when the response carries no body)
IntrospectToken(http, data) ==
    IF http = "2xx" /\ data # None
    THEN [active |-> data[1].active, sub |-> data[1].sub, roles |-> data[1].roles,
          isActive |-> data[1].isActive, error |-> FALSE]
    ELSE InactiveResponse

\* mapToAuthenticatedUser that does not look at `sub`
MapToAuthenticatedUserActiveOnly(r) ==
    IF ~Truthy(r.active)
    THEN None
    ELSE Some([id |-> r.sub,
               roles |-> OrElse(r.roles, {}),
               isActive |-> (r.isActive # "false")])

\* AuthService.mapToAuthenticatedUser
MapToAuthenticatedUser(r) ==
    IF ~Truthy(r.active) \/ Falsy(r.sub)
    THEN None
    ELSE Some([id |-> r.sub,
               roles |-> OrElse(r.roles, {}),
               isActive |-> (r.isActive # "false")])

\* AuthService.validateToken
ValidateTokenRemote(http, data) == MapToAuthenticatedUser(IntrospectToken(http, data))

\* JwtGuard.createAuthenticatedUser (introspection variant)
CreateAuthenticatedUserRemote(user) ==
    [defined |-> TRUE, id |-> user.id, roles |-> user.roles, permissions |-> {},
     tenantId |-> UNDEF]

\* JwtGuard.canActivate (introspection variant), as the record of the invocation
JwtIntrospectCall(extractFromHeader, authHeader, http, data) ==
    LET token == ExtractTokenIntrospect(extractFromHeader, authHeader)
        user == ValidateTokenRemote(http, data)
        base == [guard |-> "JwtGuard", variant |-> "introspection",
                 extractFromHeader |-> extractFromHeader, authHeader |-> authHeader,
                 token |-> token]
    IN IF FalsyStr(token)
       THEN base @@ [validated |-> FALSE, http |-> "none", data |-> None,
                     response |-> InactiveResponse,
                     result |-> "unauthorized", message |-> "Access token is required",
                     user |-> NoUser]
       ELSE IF user = None
       THEN base @@ [validated |-> TRUE, http |-> http, data |-> data,
                     response |-> IntrospectToken(http, data),
                     result |-> "unauthorized", message |-> "Invalid token",
                     user |-> NoUser]
       ELSE IF ~user[1].isActive
       THEN base @@ [validated |-> TRUE, http |-> http, data |-> data,
                     response |-> IntrospectToken(http, data),
                     result |-> "unauthorized", message |-> "User account is inactive",
                     user |-> NoUser]
       ELSE base @@ [validated |-> TRUE, http |-> http, data |-> data,
                     response |-> IntrospectToken(http, data),
                     result |-> "pass", message |-> "",
                     user |-> CreateAuthenticatedUserRemote(user[1])]

(***************************************************************************)
(* RbacGuard                                                               *)
(***************************************************************************)
\* the options used when the endpoint carries no rbac_options metadata
DefaultRbacOptions == [requireAll |-> "false", allowSuperAdmin |-> "true"]

\* RequireAllRoles(...roles): the metadata the decorator attaches
RequireAllRoles(roles) ==
    [roles |-> Some(roles),
     options |-> Some([requireAll |-> "true", allowSuperAdmin |-> UNDEF])]

\* Roles(...roles): the metadata the decorator attaches
RolesDecorator(roles) == [roles |-> Some(roles), options |-> None]

\* every() written as some()
EveryRoleAsSome(requiredRoles, userRoles) ==
    \E i \in 1..Len(requiredRoles) : requiredRoles[i] \in userRoles

\* requiredRoles.every((role) => userRoles.includes(role))
EveryRole(requiredRoles, userRoles) ==
    \A i \in 1..Len(requiredRoles) : requiredRoles[i] \in userRoles

\* requiredRoles.some((role) => userRoles.includes(role))
SomeRole(requiredRoles, userRoles) ==
    \E i \in 1..Len(requiredRoles) : requiredRoles[i] \in userRoles

\* const opts = options || { requireAll: false, allowSuperAdmin: true }
EffectiveRbacOptions(options) == OrElse(options, DefaultRbacOptions)

\* checkRoleAccess that looks at the user's roles before the super-admin override
CheckRoleAccessRolesFirst(user, requiredRoles, options) ==
    LET userRoles == user.roles
        opts == OrElse(options, DefaultRbacOptions)
    IN IF Truthy(opts.requireAll)
       THEN \A i \in 1..Len(requiredRoles) : requiredRoles[i] \in userRoles
       ELSE \/ \E i \in 1..Len(requiredRoles) : requiredRoles[i] \in userRoles
            \/ Truthy(opts.allowSuperAdmin) /\ "super-admin" \in userRoles

\* RbacGuard.checkRoleAccess
CheckRoleAccess(user, requiredRoles, options) ==
    LET userRoles == user.roles
        opts == EffectiveRbacOptions(options)
    IN IF Truthy(opts.allowSuperAdmin) /\ "super-admin" \in userRoles THEN TRUE
       ELSE IF userRoles = {} THEN FALSE
       ELSE IF Truthy(opts.requireAll) THEN EveryRole(requiredRoles, userRoles)
       ELSE SomeRole(requiredRoles, userRoles)

\* RbacGuard.canActivate, as the record of the invocation
RbacCall(meta, user) ==
    LET base == [guard |-> "RbacGuard", meta |-> meta, user |-> user]
    IN IF meta.roles = None \/ Len(meta.roles[1]) = 0
       THEN base @@ [checked |-> FALSE, result |-> "pass"]
       ELSE IF ~user.defined
       THEN base @@ [checked |-> FALSE, result |-> "forbidden"]
       ELSE IF ~CheckRoleAccess(user, meta.roles[1], meta.options)
       THEN base @@ [checked |-> TRUE, result |-> "forbidden"]
       ELSE base @@ [checked |-> TRUE, result |-> "pass"]

(***************************************************************************)
(* AbacGuard: policies and rules                                           *)
(***************************************************************************)
\* AbacGuard.createAbacContext: req is the request, now the hour of
\* new Date(), env the value of process.env.ALLOWED_IPS
CreateAbacContext(user, req, config, now, env) ==
    [user |-> user,
     resource |-> req.params,
     action |-> config.action,
     ip |-> Or(req.ip, req.remoteAddress),
     hour |-> now,
     allowedIpsEnv |-> env]

\* String.prototype.split(','): the pieces of s, s a sequence of symbols
RECURSIVE Split(_)
Split(s) ==
    IF \A i \in 1..Len(s) : s[i] # ","
    THEN <<s>>
    ELSE LET k == CHOOSE i \in 1..Len(s) :
                      s[i] = "," /\ \A j \in 1..(i - 1) : s[j] # ","
         IN <<SubSeq(s, 1, k - 1)>> \o Split(SubSeq(s, k + 1, Len(s)))

\* an IP address as a string of symbols ('' when the address is falsy)
IpString(ip) == IF Falsy(ip) THEN EmptyStr ELSE <<ip>>

\* process.env.ALLOWED_IPS?.split(',') || []
AllowedIps(env) == IF env = NullStr THEN <<>> ELSE Split(env)

\* Array.prototype.includes
Includes(list, x) == \E i \in 1..Len(list) : list[i] = x

\* rule `authenticated` of policy `default`
AuthenticatedRule(ctx) == ctx.user.defined /\ ~Falsy(ctx.user.id)

BusinessHoursStart == 9
BusinessHoursEnd == 18

\* rule `business-hours-check`
BusinessHoursRule(ctx) == ctx.hour >= BusinessHoursStart /\ ctx.hour < BusinessHoursEnd

\* rule `owner-check`
OwnerRule(ctx) == Or(ctx.resource.userId, ctx.resource.user_id) = ctx.user.id

\* tenant-check that asks for a resource tenant equal to the principal's
TenantRuleResourceRequired(ctx) ==
    IF Falsy(ctx.user.tenantId) THEN TRUE
    ELSE LET resourceTenantId == Or(ctx.resource.tenantId, ctx.resource.tenant_id)
         IN resourceTenantId = ctx.user.tenantId

\* rule `tenant-check`
TenantRule(ctx) ==
    IF Falsy(ctx.user.tenantId) THEN TRUE
    ELSE LET resourceTenantId == Or(ctx.resource.tenantId, ctx.resource.tenant_id)
         IN Falsy(resourceTenantId) \/ resourceTenantId = ctx.user.tenantId

\* rule `ip-whitelist-check`
IpWhitelistRule(ctx) ==
    LET allowedIps == AllowedIps(ctx.allowedIpsEnv)
    IN IF Len(allowedIps) = 0 THEN TRUE
       ELSE Includes(allowedIps, IpString(ctx.ip))

\* rule.condition(context): "true", "false", or "throw" when it throws
RuleResult(rule, ctx) ==
    LET bool(b) == IF b THEN "true" ELSE "false"
    IN CASE rule = "authenticated" -> bool(AuthenticatedRule(ctx))
         [] rule = "business-hours-check" -> bool(BusinessHoursRule(ctx))
         [] rule = "owner-check" -> bool(OwnerRule(ctx))
         [] rule = "tenant-check" -> bool(TenantRule(ctx))
         [] rule = "ip-whitelist-check" -> bool(IpWhitelistRule(ctx))
         [] rule = "always-true" -> "true"
         [] rule = "always-false" -> "false"
         [] rule = "throws" -> "throw"

defaultPolicy ==
    [name |-> "default", effect |-> "allow", priority |-> Some(0),
     rules |-> <<"authenticated">>]

businessHoursPolicy ==
    [name |-> "business-hours", effect |-> "allow", priority |-> Some(1),
     rules |-> <<"business-hours-check">>]

resourceOwnerPolicy ==
    [name |-> "resource-owner", effect |-> "allow", priority |-> Some(2),
     rules |-> <<"owner-check">>]

sameTenantPolicy ==
    [name |-> "same-tenant", effect |-> "allow", priority |-> Some(1),
     rules |-> <<"tenant-check">>]

allowedIpPolicy ==
    [name |-> "allowed-ip", effect |-> "deny", priority |-> Some(10),
     rules |-> <<"ip-whitelist-check">>]

BuiltinPolicies ==
    {defaultPolicy, businessHoursPolicy, resourceOwnerPolicy, sameTenantPolicy,
     allowedIpPolicy}

BuiltinNames == {p.name : p \in BuiltinPolicies}

\* AbacGuard.initializeDefaultPolicies: the registry after construction
InitializeDefaultPolicies ==
    [n \in BuiltinNames |-> CHOOSE p \in BuiltinPolicies : p.name = n]

\* this.policies.set(policy.name, policy)
MapSet(map, key, value) ==
    [k \in DOMAIN map \cup {key} |-> IF k = key THEN value ELSE map[k]]

(***************************************************************************)
(* AbacGuard: decorators                                                   *)
(***************************************************************************)
\* SetMetadata(ABAC_CONFIG_KEY, value): the key holds the value last set
SetMetadata(meta, value) == Some(value)

\* AbacAction(action, config): { action, ...config }
AbacAction(action, config) ==
    [action |-> action, policies |-> config.policies, requireAll |-> config.requireAll]

\* the config of CanRead(resource) and the like: { resource }
ResourceOnly == [policies |-> None, requireAll |-> UNDEF]

CanRead == AbacAction("read", ResourceOnly)

CanWrite == AbacAction("write", ResourceOnly)

CanDelete == AbacAction("delete", ResourceOnly)

\* RequirePolicies(policies, requireAll = false)
RequirePolicies(names, requireAll) ==
    AbacAction("custom", [policies |-> Some(names), requireAll |-> requireAll])

RequireResourceOwner == RequirePolicies(<<"resource-owner">>, "false")

RequireSameTenant == RequirePolicies(<<"same-tenant">>, "false")

RequireBusinessHours == RequirePolicies(<<"business-hours">>, "false")

\* the decorators of a handler, listed as written, are applied from the
\* last to the first; the result is what reflector.getAllAndOverride reads
RECURSIVE ApplyDecorators(_)
ApplyDecorators(stack) ==
    IF stack = <<>> THEN None
    ELSE SetMetadata(ApplyDecorators(Tail(stack)), Head(stack))

(***************************************************************************)
(* AbacGuard: evaluation                                                   *)
(***************************************************************************)
\* (p.priority || 0)
PriorityOf(p) == OrElse(p.priority, 0)

\* resolution that stops at the first name that is not registered
RECURSIVE ResolvePoliciesUntilMissing(_, _)
ResolvePoliciesUntilMissing(names, registry) ==
    IF names = <<>> THEN <<>>
    ELSE IF Head(names) \in DOMAIN registry
    THEN <<registry[Head(names)]>> \o ResolvePoliciesUntilMissing(Tail(names), registry)
    ELSE <<>>

\* policiesToEvaluate.map((name) => this.policies.get(name))
\*                   .filter((policy) => policy !== undefined)
RECURSIVE ResolvePolicies(_, _)
ResolvePolicies(names, registry) ==
    IF names = <<>> THEN <<>>
    ELSE IF Head(names) \in DOMAIN registry
    THEN <<registry[Head(names)]>> \o ResolvePolicies(Tail(names), registry)
    ELSE ResolvePolicies(Tail(names), registry)

\* policies.sort((a, b) => (b.priority || 0) - (a.priority || 0)): stable,
\* higher priority first
RECURSIVE SortByPriority(_)
SortByPriority(ps) ==
    IF ps = <<>> THEN <<>>
    ELSE LET rest == SortByPriority(Tail(ps))
             h == Head(ps)
             k == Cardinality({i \in 1..Len(rest) : PriorityOf(rest[i]) > PriorityOf(h)})
         IN SubSeq(rest, 1, k) \o <<h>> \o SubSeq(rest, k + 1, Len(rest))

\* AbacGuard.evaluatePolicy: the rules run in order until one returns false
\* or throws; `evaluated` counts the rules that ran
RECURSIVE EvaluateRules(_, _, _)
EvaluateRules(rules, ctx, n) ==
    IF rules = <<>> THEN [satisfied |-> TRUE, threw |-> FALSE, evaluated |-> n]
    ELSE LET result == RuleResult(Head(rules), ctx)
         IN IF result = "throw"
            THEN [satisfied |-> FALSE, threw |-> TRUE, evaluated |-> n + 1]
            ELSE IF result = "false"
            THEN [satisfied |-> FALSE, threw |-> FALSE, evaluated |-> n + 1]
            ELSE EvaluateRules(Tail(rules), ctx, n + 1)

EvaluatePolicy(policy, ctx) == EvaluateRules(policy.rules, ctx, 0)

\* loop that counts every satisfied policy as an allow
RECURSIVE EvaluateLoopCountAll(_, _, _)
EvaluateLoopCountAll(ps, ctx, acc) ==
    IF ps = <<>> THEN acc
    ELSE LET policy == Head(ps)
             r == EvaluateRules(policy.rules, ctx, 0)
             seen == [acc EXCEPT !.evaluated = Append(@, policy.name),
                                 !.threw = @ \/ r.threw,
                                 !.rulesRun = @ + r.evaluated]
         IN IF r.satisfied
            THEN EvaluateLoopCountAll(Tail(ps), ctx, [seen EXCEPT !.allowCount = @ + 1])
            ELSE EvaluateLoopCountAll(Tail(ps), ctx, seen)

\* the loop of AbacGuard.evaluatePolicies over the sorted policies
RECURSIVE EvaluateLoop(_, _, _)
EvaluateLoop(ps, ctx, acc) ==
    IF ps = <<>> THEN acc
    ELSE LET policy == Head(ps)
             r == EvaluatePolicy(policy, ctx)
             seen == [acc EXCEPT !.evaluated = Append(@, policy.name),
                                 !.threw = @ \/ r.threw,
                                 !.rulesRun = @ + r.evaluated]
         IN IF r.satisfied /\ policy.effect = "allow"
            THEN EvaluateLoop(Tail(ps), ctx, [seen EXCEPT !.allowCount = @ + 1])
            ELSE IF r.satisfied /\ policy.effect = "deny"
            THEN [seen EXCEPT !.denyCount = @ + 1, !.returned = TRUE]
            ELSE EvaluateLoop(Tail(ps), ctx, seen)

\* evaluatePolicies whose requireAll branch compares the allow count with
\* the number of all the policies of the set
EvaluatePoliciesAllCounted(ctx, config, registry) ==
    LET policiesToEvaluate == OrElse(config.policies, <<"default">>)
        resolved == ResolvePolicies(policiesToEvaluate, registry)
        sorted == SortByPriority(resolved)
        start == [evaluated |-> <<>>, threw |-> FALSE, rulesRun |-> 0,
                  allowCount |-> 0, denyCount |-> 0, returned |-> FALSE]
        acc == EvaluateLoop(sorted, ctx, start)
        decision ==
            IF Len(resolved) = 0 THEN FALSE
            ELSE IF acc.returned THEN FALSE
            ELSE IF Truthy(config.requireAll)
            THEN acc.allowCount = Len(sorted) /\ acc.denyCount = 0
            ELSE acc.allowCount > 0 /\ acc.denyCount = 0
    IN [decision |-> decision, names |-> policiesToEvaluate, resolved |-> resolved,
        sorted |-> sorted, evaluated |-> acc.evaluated, threw |-> acc.threw,
        rulesRun |-> acc.rulesRun]

\* AbacGuard.evaluatePolicies
EvaluatePolicies(ctx, config, registry) ==
    LET policiesToEvaluate == OrElse(config.policies, <<"default">>)
        resolved == ResolvePolicies(policiesToEvaluate, registry)
        sorted == SortByPriority(resolved)
        start == [evaluated |-> <<>>, threw |-> FALSE, rulesRun |-> 0,
                  allowCount |-> 0, denyCount |-> 0, returned |-> FALSE]
        acc == EvaluateLoop(sorted, ctx, start)
        allowPolicies == {i \in 1..Len(sorted) : sorted[i].effect = "allow"}
        decision ==
            IF Len(resolved) = 0 THEN FALSE
            ELSE IF acc.returned THEN FALSE
            ELSE IF Truthy(config.requireAll)
            THEN acc.allowCount = Cardinality(allowPolicies) /\ acc.denyCount = 0
            ELSE acc.allowCount > 0 /\ acc.denyCount = 0
    IN [decision |-> decision, names |-> policiesToEvaluate, resolved |-> resolved,
        sorted |-> sorted, evaluated |-> acc.evaluated, threw |-> acc.threw,
        rulesRun |-> acc.rulesRun]

\* a guard that takes the effect of the first satisfied policy as the decision
AbacCallFirstApplicable(in, user, registry) ==
    LET base == [guard |-> "AbacGuard", in |-> in, user |-> user]
        ctx == CreateAbacContext(user, in.req, in.config, in.now, in.env)
        eval == EvaluatePolicies(ctx, in.config, registry)
        hits == {i \in 1..Len(eval.sorted) : EvaluatePolicy(eval.sorted[i], ctx).satisfied}
        first == CHOOSE i \in hits : \A j \in hits : i <= j
    IN IF ~in.hasConfig
       THEN base @@ [evaluatedPolicies |-> FALSE, result |-> "pass"]
       ELSE IF ~user.defined
       THEN base @@ [evaluatedPolicies |-> FALSE, result |-> "forbidden"]
       ELSE base @@ [evaluatedPolicies |-> TRUE, ctx |-> ctx, eval |-> eval,
                     result |-> IF hits # {} /\ eval.sorted[first].effect = "allow"
                                THEN "pass" ELSE "forbidden"]

\* AbacGuard.canActivate, as the record of the invocation
AbacCall(in, user, registry) ==
    LET base == [guard |-> "AbacGuard", in |-> in, user |-> user]
        ctx == CreateAbacContext(user, in.req, in.config, in.now, in.env)
        eval == EvaluatePolicies(ctx, in.config, registry)
    IN IF ~in.hasConfig
       THEN base @@ [evaluatedPolicies |-> FALSE, result |-> "pass"]
       ELSE IF ~user.defined
       THEN base @@ [evaluatedPolicies |-> FALSE, result |-> "forbidden"]
       ELSE base @@ [evaluatedPolicies |-> TRUE, ctx |-> ctx, eval |-> eval,
                     result |-> IF eval.decision THEN "pass" ELSE "forbidden"]

(***************************************************************************)
(* Tasks: TasksRepository over the tasks table                             *)
(***************************************************************************)
MaxTasks == 2      \* most rows the table ever receives

TaskStatuses == {"pending", "in_progress", "completed", "cancelled"}

NoTaskCall == [op |-> "none"]

\* the requests that the service handles at the same time
Callers == {"c1", "c2"}

\* a caller without a call in progress
Idle == [op |-> "none", pc |-> "idle"]

\* String.prototype.toLowerCase, over the letters of the model
ToLowerCase(s) == [i \in 1..Len(s) |-> IF s[i] = "A" THEN "a" ELSE s[i]]

\* String.prototype.trim
RECURSIVE Trim(_)
Trim(s) ==
    IF s = <<>> THEN s
    ELSE IF Head(s) = " " THEN Trim(Tail(s))
    ELSE IF s[Len(s)] = " " THEN Trim(SubSeq(s, 1, Len(s) - 1))
    ELSE s

\* { contains: sub, mode: 'insensitive' } on a column that may be null
ContainsInsensitive(s, sub) ==
    /\ s # NullStr
    /\ \E i \in 0..(Len(s) - Len(sub)) :
          ToLowerCase(SubSeq(s, i + 1, i + Len(sub))) = ToLowerCase(sub)

\* orderBy: { createdAt: 'desc' }: a row created later has the larger id
RECURSIVE Descending(_)
Descending(S) ==
    IF S = {} THEN <<>>
    ELSE LET m == CHOOSE x \in S : \A y \in S : y <= x
         IN <<m>> \o Descending(S \ {m})

DefaultPage == 1

DefaultLimit == 10

\* TasksRepository.buildWhereClause: the ids of the rows the clause selects
BuildWhereClause(table, filters, userId) ==
    {id \in DOMAIN table :
        /\ ~Falsy(userId) => table[id].userId = userId
        /\ ~Falsy(filters.status) => table[id].status = filters.status
        /\ ~FalsyStr(filters.search)
              => \/ ContainsInsensitive(table[id].title, filters.search)
                 \/ ContainsInsensitive(table[id].description, filters.search)}

\* TasksRepository.findByFilters without pagination options
RepositoryFindByFilters(table, filters, userId) ==
    LET rows == Descending(BuildWhereClause(table, filters, userId))
        skip == (DefaultPage - 1) * DefaultLimit
        last == IF Len(rows) < skip + DefaultLimit THEN Len(rows) ELSE skip + DefaultLimit
    IN [i \in 1..(last - skip) |-> table[rows[skip + i]]]

\* TasksRepository.findById: findUnique({ where: { id, userId } })
RepositoryFindById(table, id, userId) ==
    IF id \in DOMAIN table /\ table[id].userId = userId THEN Some(table[id]) ELSE None

\* the outcome of a service or repository call: the exception it throws
\* ("none" when it returns), the table it leaves and the task it returns
Returned(table, task) == [error |-> "none", message |-> "", table |-> table, task |-> task]

Thrown(error, message, table) ==
    [error |-> error, message |-> message, table |-> table, task |-> None]

\* CREATE UNIQUE INDEX "Tasks_title_key" ON "Tasks"("title"): the table takes
\* the title for row id when no other row holds exactly that title
TitleKeyFree(table, id, title) == \A i \in DOMAIN table \ {id} : table[i].title # title

\* the error of a statement that the unique index refuses
UniqueViolation(table) ==
    Thrown("DatabaseError", "Unique constraint failed on the fields: (title)", table)

\* databaseService.tasks.create({ data })
TasksCreate(table, id, data) ==
    LET task == [id |-> id, title |-> data.title, description |-> data.description,
                 status |-> Or(data.status, "pending"), userId |-> data.userId]
    IN IF ~TitleKeyFree(table, id, task.title) THEN UniqueViolation(table)
       ELSE Returned(MapSet(table, id, task), Some(task))

\* databaseService.tasks.update({ where: { id }, data })
TasksUpdate(table, id, data) ==
    IF id \notin DOMAIN table
    THEN Thrown("DatabaseError", "Record to update not found", table)
    ELSE LET task == [table[id] EXCEPT
                         !.title = IF ~FalsyStr(data.title) THEN data.title ELSE @,
                         !.description = IF data.description # None
                                         THEN data.description[1] ELSE @,
                         !.status = IF ~Falsy(data.status) THEN data.status ELSE @]
         IN IF ~TitleKeyFree(table, id, task.title) THEN UniqueViolation(table)
            ELSE Returned([table EXCEPT ![id] = task], Some(task))

\* databaseService.tasks.delete({ where: { id } })
TasksDelete(table, id) ==
    IF id \notin DOMAIN table
    THEN Thrown("DatabaseError", "Record to delete does not exist", table)
    ELSE Returned([i \in DOMAIN table \ {id} |-> table[i]], None)

\* TasksRepository.create
RepositoryCreate(table, id, data) == TasksCreate(table, id, data)

\* TasksRepository.update
RepositoryUpdate(table, id, data, userId) ==
    IF RepositoryFindById(table, id, userId) = None
    THEN Thrown("NotFound", "Task not found or access denied", table)
    ELSE TasksUpdate(table, id, data)

\* TasksRepository.delete
RepositoryDelete(table, id, userId) ==
    IF RepositoryFindById(table, id, userId) = None
    THEN Thrown("NotFound", "Task not found or access denied", table)
    ELSE TasksDelete(table, id)

(***************************************************************************)
(* Tasks: TasksService                                                     *)
(***************************************************************************)
\* TasksService.findById
ServiceFindById(table, id, userId) ==
    IF id = 0 \/ id <= 0 THEN Thrown("BadRequest", "Invalid task ID", table)
    ELSE LET task == RepositoryFindById(table, id, userId)
         IN IF task = None THEN Thrown("NotFound", "Task not found", table)
            ELSE Returned(table, task)

\* TasksService.findByFilters, for filters without dates
ServiceFindByFilters(table, filters, userId) ==
    Returned(table, RepositoryFindByFilters(table, filters, userId))

\* TasksService.validateTaskTitle; excludeId is None when it is not given
ValidateTaskTitle(table, title, userId, excludeId) ==
    IF FalsyStr(title) \/ Len(Trim(title)) = 0
    THEN Thrown("BadRequest", "Task title cannot be empty", table)
    ELSE LET existingTasks ==
                 RepositoryFindByFilters(table, [status |-> UNDEF, search |-> title], userId)
             duplicateTask ==
                 \E i \in 1..Len(existingTasks) :
                     /\ ToLowerCase(existingTasks[i].title) = ToLowerCase(title)
                     /\ Some(existingTasks[i].id) # excludeId
         IN IF duplicateTask
            THEN Thrown("Conflict", "A task with the title already exists", table)
            ELSE Returned(table, None)

\* TasksService.create; id is the id the table gives to the new row
ServiceCreate(table, id, data) ==
    LET valid == ValidateTaskTitle(table, data.title, data.userId, None)
    IN IF valid.error # "none" THEN valid
       ELSE RepositoryCreate(table, id, [data EXCEPT !.status = Or(@, "pending")])

\* TasksService.update
ServiceUpdate(table, id, data, userId) ==
    IF id = 0 \/ id <= 0 THEN Thrown("BadRequest", "Invalid task ID", table)
    ELSE LET found == ServiceFindById(table, id, userId)
             valid == IF ~FalsyStr(data.title)
                      THEN ValidateTaskTitle(table, data.title, userId, Some(id))
                      ELSE Returned(table, None)
         IN IF found.error # "none" THEN found
            ELSE IF valid.error # "none" THEN valid
            ELSE RepositoryUpdate(table, id, data, userId)

\* delete that removes the task whatever its status
ServiceDeleteAnyStatus(table, id, userId) ==
    IF id = 0 \/ id <= 0 THEN Thrown("BadRequest", "Invalid task ID", table)
    ELSE LET found == ServiceFindById(table, id, userId)
         IN IF found.error # "none" THEN found
            ELSE RepositoryDelete(table, id, userId)

\* TasksService.delete
ServiceDelete(table, id, userId) ==
    IF id = 0 \/ id <= 0 THEN Thrown("BadRequest", "Invalid task ID", table)
    ELSE LET found == ServiceFindById(table, id, userId)
         IN IF found.error # "none" THEN found
            ELSE IF found.task[1].status = "completed"
            THEN Thrown("BadRequest", "Cannot delete completed tasks", table)
            ELSE RepositoryDelete(table, id, userId)

\* the UpdateTaskData of a status change
StatusOnly(status) == [title |-> NullStr, description |-> None, status |-> status]

\* TasksService.markAsCompleted
ServiceMarkAsCompleted(table, id, userId) ==
    LET found == ServiceFindById(table, id, userId)
    IN IF found.error # "none" THEN found
       ELSE IF found.task[1].status = "completed"
       THEN Thrown("BadRequest", "Task is already completed", table)
       ELSE RepositoryUpdate(table, id, StatusOnly("completed"), userId)

\* TasksService.markAsInProgress
ServiceMarkAsInProgress(table, id, userId) ==
    LET found == ServiceFindById(table, id, userId)
    IN IF found.error # "none" THEN found
       ELSE IF found.task[1].status = "in_progress"
       THEN Thrown("BadRequest", "Task is already in progress", table)
       ELSE IF found.task[1].status = "completed"
       THEN Thrown("BadRequest", "Cannot start a completed task", table)
       ELSE RepositoryUpdate(table, id, StatusOnly("in_progress"), userId)

\* TasksService.markAsCancelled
ServiceMarkAsCancelled(table, id, userId) ==
    LET found == ServiceFindById(table, id, userId)
    IN IF found.error # "none" THEN found
       ELSE IF found.task[1].status = "cancelled"
       THEN Thrown("BadRequest", "Task is already cancelled", table)
       ELSE IF found.task[1].status = "completed"
       THEN Thrown("BadRequest", "Cannot cancel a completed task", table)
       ELSE RepositoryUpdate(table, id, StatusOnly("cancelled"), userId)

(***************************************************************************)
(* Inputs                                                                  *)
(***************************************************************************)
\* @UseGuards(...) of the endpoints
EndpointGuards ==
    {<<>>, <<"JwtGuard">>, <<"JwtGuard", "RbacGuard">>, <<"JwtGuard", "AbacGuard">>,
     <<"JwtGuard", "RbacGuard", "AbacGuard">>, <<"RbacGuard">>, <<"AbacGuard">>}

\* process.env as the jwt configuration reads it: the extraction flags vary
ExtractionEnvs ==
    [NODE_ENV : {UNDEF}, JWT_IGNORE_EXPIRATION : {UNDEF}, JWT_CLOCK_TOLERANCE : {NullStr},
     JWT_EXTRACT_FROM_HEADER : {UNDEF, "false"}, JWT_EXTRACT_FROM_QUERY : {UNDEF, "true"},
     JWT_EXTRACT_FROM_COOKIE : {UNDEF, "true"}, JWT_USER_ID_CLAIM_KEY : {UNDEF}]

\* the user-id claim key varies
ClaimEnvs ==
    [NODE_ENV : {UNDEF}, JWT_IGNORE_EXPIRATION : {UNDEF}, JWT_CLOCK_TOLERANCE : {NullStr},
     JWT_EXTRACT_FROM_HEADER : {UNDEF}, JWT_EXTRACT_FROM_QUERY : {UNDEF},
     JWT_EXTRACT_FROM_COOKIE : {UNDEF}, JWT_USER_ID_CLAIM_KEY : {UNDEF, "uid"}]

\* the environment and the expiration settings vary
ExpirationEnvs ==
    [NODE_ENV : {UNDEF, "production", "development"},
     JWT_IGNORE_EXPIRATION : {UNDEF, "true", "false"},
     JWT_CLOCK_TOLERANCE : {NullStr, <<"0">>},
     JWT_EXTRACT_FROM_HEADER : {UNDEF}, JWT_EXTRACT_FROM_QUERY : {UNDEF},
     JWT_EXTRACT_FROM_COOKIE : {UNDEF}, JWT_USER_ID_CLAIM_KEY : {UNDEF}]

LocalConfigs ==
    {JwtConfigFactory(env) : env \in ExtractionEnvs \cup ClaimEnvs \cup ExpirationEnvs}

HeaderValues ==
    {NullStr, Bearer \o <<"h">>, <<"h">>, Bearer,
     <<"b", "e", "a", "r", "e", "r", " ", "h">>}

CookieJars ==
    {[present |-> FALSE, hasName |-> FALSE, value |-> NullStr],
     [present |-> TRUE, hasName |-> FALSE, value |-> NullStr],
     [present |-> TRUE, hasName |-> TRUE, value |-> EmptyStr],
     [present |-> TRUE, hasName |-> TRUE, value |-> <<"c">>]}

LocalRequests ==
    [authorization : HeaderValues, query : {NullStr, EmptyStr, <<"q">>},
     cookies : CookieJars]

VerifyErrors == {"TokenExpiredError", "JsonWebTokenError", "NotBeforeError", "Error"}

RoleClaims == {None} \cup {Some(r) : r \in SUBSET Roles}

LocalPayloads ==
    [sub : {"u1"}, uid : {UNDEF}, roles : RoleClaims, permissions : {None},
     tenant_id : {UNDEF}]
    \cup
    [sub : {UNDEF, "u1"}, uid : {UNDEF, "u2"}, roles : {Some({"user"})},
     permissions : {None}, tenant_id : {UNDEF, "t1"}]

GoodPayload ==
    [sub |-> "u1", uid |-> UNDEF, roles |-> Some({"user"}), permissions |-> None,
     tenant_id |-> UNDEF]

\* the clock when the token is verified, in seconds
ClockTimes == {100}

\* the `exp` claim: absent, or around the clock time less the tolerance
ExpClaims == {None, Some(69), Some(70), Some(71), Some(100), Some(101)}

\* a request with a bearer token in the Authorization header only
HeaderRequest ==
    [authorization |-> Bearer \o <<"h">>, query |-> NullStr,
     cookies |-> [present |-> FALSE, hasName |-> FALSE, value |-> NullStr]]

\* what JwtGuard (local variant) reads: one group of inputs varies at a time
LocalInputs ==
    [env : ExtractionEnvs, req : LocalRequests,
     jwt : [fault : {"none"} \cup VerifyErrors, exp : {None}, payload : {GoodPayload}],
     now : ClockTimes]
    \cup
    [env : ClaimEnvs, req : {HeaderRequest},
     jwt : [fault : {"none"}, exp : {None}, payload : LocalPayloads],
     now : ClockTimes]
    \cup
    [env : ExpirationEnvs, req : {HeaderRequest},
     jwt : [fault : {"none"} \cup VerifyErrors, exp : ExpClaims, payload : {GoodPayload}],
     now : ClockTimes]

HttpOutcomes == {"2xx", "non-2xx", "network-error", "timeout"}

IntrospectBodies ==
    {None} \cup
    {Some(d) : d \in [active : Tri, sub : {UNDEF, "", "u1"},
                      roles : {None, Some({}), Some({"admin"})}, isActive : Tri]}

GoodBody ==
    Some([active |-> "true", sub |-> "u1", roles |-> Some({"admin"}), isActive |-> "true"])

\* what JwtGuard (introspection variant) reads: the header and the answer of
\* the auth service vary, or the sources of the request do
IntrospectInputs ==
    [extractFromHeader : Tri, authHeader : HeaderValues \cup {NonString},
     extractFromQuery : {UNDEF}, extractFromCookie : {UNDEF},
     query : {NullStr}, cookies : {[present |-> FALSE, hasName |-> FALSE, value |-> NullStr]},
     http : HttpOutcomes, data : IntrospectBodies]
    \cup
    [extractFromHeader : {"true", "false"}, authHeader : {NullStr, Bearer \o <<"h">>},
     extractFromQuery : Tri, extractFromCookie : Tri,
     query : {NullStr, <<"q">>}, cookies : CookieJars,
     http : {"2xx"}, data : {GoodBody}]

RbacMetadata ==
    [roles : {None} \cup {Some(r) : r \in SeqsOf(Roles, 0, MaxRequired)},
     options : {None} \cup {Some(o) : o \in [requireAll : Tri, allowSuperAdmin : Tri]}]

NoParams ==
    [userId |-> UNDEF, user_id |-> UNDEF, tenantId |-> UNDEF, tenant_id |-> UNDEF]

Hours == {8, 9, 17, 18}

\* request and environment of an ABAC decision: one attribute group varies
\* at a time
AbacEnvironments ==
    [req : [params : {NoParams}, ip : {UNDEF}, remoteAddress : {UNDEF}],
     now : Hours, env : {NullStr}]
    \cup
    [req : [params : [userId : {UNDEF, "u1", "u2"}, user_id : {UNDEF, "u1"},
                      tenantId : {UNDEF}, tenant_id : {UNDEF}],
            ip : {UNDEF}, remoteAddress : {UNDEF}],
     now : {9}, env : {NullStr}]
    \cup
    [req : [params : [userId : {UNDEF}, user_id : {UNDEF},
                      tenantId : {UNDEF, "t1", "t2"}, tenant_id : {UNDEF, "t2"}],
            ip : {UNDEF}, remoteAddress : {UNDEF}],
     now : {9}, env : {NullStr}]
    \cup
    [req : [params : {NoParams}, ip : {UNDEF, "ip1"}, remoteAddress : {UNDEF, "ip2"}],
     now : {9},
     env : {NullStr} \cup SeqsOf({"ip1", ","}, 0, MaxEnvLen)]

AbacConfigs(names) ==
    [action : {"read"},
     policies : {None} \cup {Some(l) : l \in SeqsOf(names, 0, MaxNames)},
     requireAll : Tri]

NoAbacConfig == [action |-> "read", policies |-> None, requireAll |-> UNDEF]

\* what AbacGuard reads on a handler that carries the decorators of `stack`
AbacInput(stack, req, now, env) ==
    LET meta == ApplyDecorators(stack)
    IN [decorators |-> stack, hasConfig |-> meta # None,
        config |-> OrElse(meta, NoAbacConfig), req |-> req, now |-> now, env |-> env]

\* an action decorator and a policy decorator on one handler, in either order
DecoratorStacks ==
    LET pairs == {CanRead, CanWrite, CanDelete}
                 \X {RequireResourceOwner, RequireSameTenant, RequireBusinessHours}
    IN {<<p[1], p[2]>> : p \in pairs} \cup {<<p[2], p[1]>> : p \in pairs}

\* what AbacGuard reads on an endpoint of the service: built-in policy names
\* and a name that is not registered, a handler without ABAC decorator, and
\* handlers with two of them
BuiltinAbacInputs ==
    {AbacInput(<<c>>, e.req, e.now, e.env) :
        c \in AbacConfigs(BuiltinNames \cup {"missing"}), e \in AbacEnvironments}
    \cup
    {AbacInput(<<>>, [params |-> NoParams, ip |-> UNDEF, remoteAddress |-> UNDEF],
               9, NullStr)}
    \cup
    {AbacInput(stack, e.req, e.now, e.env) :
        stack \in DecoratorStacks, e \in AbacEnvironments}

CustomNames == {"custom-a", "custom-b"}

AbstractRules == {"always-true", "always-false", "throws"}

\* the policies an application may register at startup
CustomPolicies ==
    [name : CustomNames, effect : {"allow", "deny"},
     priority : {None} \cup {Some(n) : n \in 1..MaxPriority},
     rules : SeqsOf(AbstractRules, 0, MaxRules)]

\* what AbacGuard reads on an endpoint that names registered custom policies
CustomAbacInputs ==
    {AbacInput(<<c>>, [params |-> NoParams, ip |-> UNDEF, remoteAddress |-> UNDEF],
               9, NullStr) :
        c \in AbacConfigs(CustomNames \cup {"default"})}

\* the principal of a request that passed JwtGuard
SomeUser ==
    [defined |-> TRUE, id |-> "u1", roles |-> {"user"}, permissions |-> {},
     tenantId |-> UNDEF]

(***************************************************************************)
(* Actions                                                                 *)
(***************************************************************************)
\* a request reaches an endpoint
Arrive ==
    /\ phase \in {"idle", "done"}
    /\ \E guards \in EndpointGuards :
          /\ endpoint' = guards
          /\ pending' = guards
    /\ phase' = "guards"
    /\ requestUser' = NoUser
    /\ outcome' = "none"
    /\ call' = NoCall
    /\ trace' = <<>>
    /\ UNCHANGED policies
    /\ UNCHANGED taskVars

\* what the run of a guard leaves in the trace: its name, its result and the
\* number of ABAC rule conditions it evaluated
TraceEntry(c) ==
    [guard |-> c.guard, result |-> c.result,
     rulesRun |-> IF c.guard = "AbacGuard" /\ c.evaluatedPolicies
                  THEN c.eval.rulesRun ELSE 0]

\* a framework that goes on to the next guard whatever the guard did
FinishAlwaysContinues(c) ==
    /\ trace' = Append(trace, TraceEntry(c))
    /\ phase' = "guards"
    /\ outcome' = "none"

\* the framework ends the request with the exception of the guard, or
\* goes on when the guard returned true
Finish(c) ==
    /\ trace' = Append(trace, TraceEntry(c))
    /\ IF c.result = "pass"
       THEN /\ phase' = "guards"
            /\ outcome' = "none"
       ELSE /\ phase' = "done"
            /\ outcome' = c.result

GuardTurn(name) ==
    /\ phase = "guards"
    /\ call = NoCall
    /\ pending # <<>>
    /\ Head(pending) = name
    /\ pending' = Tail(pending)

\* a guard that attaches the principal of the payload before it verifies
JwtGuardLocalAttachingFirst ==
    /\ GuardTurn("JwtGuard")
    /\ \E in \in LocalInputs :
          LET cfg == JwtConfigFactory(in.env)
              verify == VerifyAsync(in.jwt, VerifyOptions(cfg), in.now)
              c == JwtLocalCall(cfg, in.req, verify, in.jwt.payload) @@ [in |-> in]
          IN /\ call' = c
             /\ requestUser' = IF FalsyStr(c.token) THEN requestUser
                               ELSE CreateAuthenticatedUserLocal(in.jwt.payload, cfg)
             /\ Finish(c)
    /\ UNCHANGED <<policies, endpoint>>
    /\ UNCHANGED taskVars

\* JwtGuard.canActivate, local verification
JwtGuardLocal ==
    /\ GuardTurn("JwtGuard")
    /\ \E in \in LocalInputs :
          LET cfg == JwtConfigFactory(in.env)
              verify == VerifyAsync(in.jwt, VerifyOptions(cfg), in.now)
              c == JwtLocalCall(cfg, in.req, verify, in.jwt.payload) @@ [in |-> in]
          IN /\ call' = c
             /\ requestUser' = IF c.result = "pass" THEN c.user ELSE requestUser
             /\ Finish(c)
    /\ UNCHANGED <<policies, endpoint>>
    /\ UNCHANGED taskVars

\* JwtGuard.canActivate, remote introspection
JwtGuardIntrospect ==
    /\ GuardTurn("JwtGuard")
    /\ \E in \in IntrospectInputs :
          LET c == JwtIntrospectCall(in.extractFromHeader, in.authHeader, in.http, in.data)
                       @@ [in |-> in]
          IN /\ call' = c
             /\ requestUser' = IF c.result = "pass" THEN c.user ELSE requestUser
             /\ Finish(c)
    /\ UNCHANGED <<policies, endpoint>>
    /\ UNCHANGED taskVars

\* RbacGuard.canActivate
RbacGuard ==
    /\ GuardTurn("RbacGuard")
    /\ \E meta \in RbacMetadata :
          LET c == RbacCall(meta, requestUser)
          IN /\ call' = c
             /\ Finish(c)
    /\ UNCHANGED <<policies, endpoint, requestUser>>
    /\ UNCHANGED taskVars

\* a guard that stores `priority || 0` in the registered policies it sorts
AbacGuardStoringPriority(inputs) ==
    /\ GuardTurn("AbacGuard")
    /\ \E in \in inputs :
          LET c == AbacCall(in, requestUser, policies)
          IN /\ call' = c
             /\ Finish(c)
    /\ policies' = [n \in DOMAIN policies |->
                       [policies[n] EXCEPT !.priority = Some(PriorityOf(policies[n]))]]
    /\ UNCHANGED <<endpoint, requestUser>>
    /\ UNCHANGED taskVars

\* AbacGuard.canActivate, reading one of `inputs`
AbacGuard(inputs) ==
    /\ GuardTurn("AbacGuard")
    /\ \E in \in inputs :
          LET c == AbacCall(in, requestUser, policies)
          IN /\ call' = c
             /\ Finish(c)
    /\ UNCHANGED <<policies, endpoint, requestUser>>
    /\ UNCHANGED taskVars

AbacGuardBuiltin == AbacGuard(BuiltinAbacInputs)

AbacGuardCustom == AbacGuard(CustomAbacInputs)

\* the framework calls the next guard of the endpoint
Proceed ==
    /\ phase = "guards"
    /\ call # NoCall
    /\ pending # <<>>
    /\ call' = NoCall
    /\ UNCHANGED <<policies, phase, endpoint, pending, requestUser, outcome, trace>>
    /\ UNCHANGED taskVars

\* every guard returned true: the route handler runs
Handle ==
    /\ phase = "guards"
    /\ pending = <<>>
    /\ phase' = "done"
    /\ outcome' = "handled"
    /\ UNCHANGED <<policies, endpoint, pending, requestUser, call, trace>>
    /\ UNCHANGED taskVars

\* AbacGuard.registerPolicy, called while the application starts
RegisterPolicy ==
    /\ phase = "startup"
    /\ \E p \in CustomPolicies : policies' = MapSet(policies, p.name, p)
    /\ UNCHANGED <<phase, endpoint, pending, requestUser, outcome, call, trace>>
    /\ UNCHANGED taskVars

\* a request that passed JwtGuard reaches an endpoint guarded by AbacGuard
ArriveAuthenticated ==
    /\ phase \in {"startup", "done"}
    /\ phase' = "guards"
    /\ endpoint' = <<"JwtGuard", "AbacGuard">>
    /\ pending' = <<"AbacGuard">>
    /\ requestUser' = SomeUser
    /\ outcome' = "none"
    /\ call' = NoCall
    /\ trace' = <<[guard |-> "JwtGuard", result |-> "pass", rulesRun |-> 0]>>
    /\ UNCHANGED policies
    /\ UNCHANGED taskVars

(***************************************************************************)
(* Tasks: calls of the service                                             *)
(***************************************************************************)
TaskUsers == {"u1", "u2"}

TaskTitles == {<<"a">>, <<"A">>}

\* ids a caller passes: 0 is not a valid id
TaskIds == 0..MaxTasks

CreateInputs ==
    [title : TaskTitles \cup {EmptyStr, <<" ">>}, description : {NullStr},
     status : {UNDEF} \cup TaskStatuses, userId : TaskUsers]

\* an update changes the title or the status
UpdateInputs ==
    [title : TaskTitles \cup {EmptyStr}, description : {None}, status : {UNDEF}]
    \cup
    [title : {NullStr}, description : {None}, status : {UNDEF} \cup TaskStatuses]

\* the service call ends: the table and the record of the call
TaskReturn(op, id, userId, data, r) ==
    /\ tasks' = r.table
    /\ taskCall' = [op |-> op, id |-> id, userId |-> userId, data |-> data,
                    before |-> IF id \in DOMAIN tasks THEN Some(tasks[id]) ELSE None,
                    error |-> r.error, message |-> r.message]
    /\ UNCHANGED <<guardVars, inFlight>>

\* TasksService.create
Create ==
    /\ nextId <= MaxTasks
    /\ \E data \in CreateInputs :
          LET r == ServiceCreate(tasks, nextId, data)
          IN /\ TaskReturn("create", nextId, data.userId, data, r)
             /\ nextId' = IF r.error = "none" THEN nextId + 1 ELSE nextId

\* TasksService.update
Update ==
    \E id \in TaskIds, userId \in TaskUsers, data \in UpdateInputs :
        /\ TaskReturn("update", id, userId, data, ServiceUpdate(tasks, id, data, userId))
        /\ UNCHANGED nextId

\* TasksService.delete
Delete ==
    \E id \in TaskIds, userId \in TaskUsers :
        /\ TaskReturn("delete", id, userId, None, ServiceDelete(tasks, id, userId))
        /\ UNCHANGED nextId

\* TasksService.markAsCompleted
MarkAsCompleted ==
    \E id \in TaskIds, userId \in TaskUsers :
        /\ TaskReturn("markAsCompleted", id, userId, None,
                      ServiceMarkAsCompleted(tasks, id, userId))
        /\ UNCHANGED nextId

\* TasksService.markAsInProgress
MarkAsInProgress ==
    \E id \in TaskIds, userId \in TaskUsers :
        /\ TaskReturn("markAsInProgress", id, userId, None,
                      ServiceMarkAsInProgress(tasks, id, userId))
        /\ UNCHANGED nextId

\* TasksService.markAsCancelled
MarkAsCancelled ==
    \E id \in TaskIds, userId \in TaskUsers :
        /\ TaskReturn("markAsCancelled", id, userId, None,
                      ServiceMarkAsCancelled(tasks, id, userId))
        /\ UNCHANGED nextId

\* filters of a search: a status, a text, both or none
FilterInputs == [status : {UNDEF, "completed"}, search : {NullStr, <<"a">>}]

\* the user id a caller passes may be missing or empty
CallerIds == TaskUsers \cup {UNDEF, ""}

\* TasksService.findByFilters
FindByFilters ==
    \E filters \in FilterInputs, userId \in CallerIds :
        LET r == ServiceFindByFilters(tasks, filters, userId)
        IN /\ taskCall' = [op |-> "findByFilters", userId |-> userId, filters |-> filters,
                           error |-> r.error, returned |-> r.task]
           /\ UNCHANGED <<tasks, nextId, inFlight, guardVars>>

(***************************************************************************)
(* Tasks: one owner with a long list of tasks                              *)
(***************************************************************************)
MaxListed == 12    \* most tasks of the owner of the list

\* the decimal digits of a number below 100
ToDigits(n) ==
    IF n < 10 THEN <<Digits[n + 1]>>
    ELSE <<Digits[(n \div 10) + 1], Digits[(n % 10) + 1]>>

\* the title a client gives to its n-th task: "a1", "a2", ...
Numbered(n) == <<"a">> \o ToDigits(n)

ListOwner == "u1"

\* TasksService.create by the owner of the list: the numbered title of the
\* new task, or one of the plain titles
CreateListed ==
    /\ nextId <= MaxListed
    /\ \E title \in TaskTitles \cup {Numbered(nextId)} :
          LET data == [title |-> title, description |-> NullStr, status |-> UNDEF,
                       userId |-> ListOwner]
              r == ServiceCreate(tasks, nextId, data)
          IN /\ TaskReturn("create", nextId, ListOwner, data, r)
             /\ nextId' = IF r.error = "none" THEN nextId + 1 ELSE nextId

\* TasksService.update of a title by the owner of the list
UpdateListed ==
    \E id \in 1..MaxListed, title \in TaskTitles :
        LET data == [title |-> title, description |-> None, status |-> UNDEF]
        IN /\ TaskReturn("update", id, ListOwner, data,
                         ServiceUpdate(tasks, id, data, ListOwner))
           /\ UNCHANGED nextId

(***************************************************************************)
(* Tasks: calls in progress at the same time                               *)
(***************************************************************************)
\* Every call is made by the owner of the tasks.  A call advances from one
\* database statement to the next; between two statements (an await) the
\* calls of the other callers may run.
MaxShared == 2     \* most rows of the table the callers share

\* position of a call: before the statement named by pc
InProgress(op, pc, id, data) ==
    [op |-> op, pc |-> pc, id |-> id, data |-> data, error |-> "none", message |-> ""]

\* a call that ended
Ended(op, id, data, r) ==
    [op |-> op, pc |-> "done", id |-> id, data |-> data,
     error |-> r.error, message |-> r.message]

\* UpdateTaskData of the concurrent callers: a new title or the status completed
SharedUpdates ==
    [title : TaskTitles, description : {None}, status : {UNDEF}]
    \cup {StatusOnly("completed")}

\* TasksService.delete up to `await this.tasksRepository.delete`
CallDelete ==
    \E c \in Callers, id \in 1..MaxShared :
        LET found == ServiceFindById(tasks, id, ListOwner)
            r == IF found.error # "none" THEN found
                 ELSE IF found.task[1].status = "completed"
                 THEN Thrown("BadRequest", "Cannot delete completed tasks", tasks)
                 ELSE found
        IN /\ inFlight[c] = Idle
           /\ inFlight' = [inFlight EXCEPT ![c] =
                  IF r.error # "none" THEN Ended("delete", id, None, r)
                  ELSE InProgress("delete", "repository.findById", id, None)]
           /\ UNCHANGED <<tasks, nextId, taskCall, guardVars>>

\* TasksService.markAsCompleted up to `await this.tasksRepository.update`
CallMarkAsCompleted ==
    \E c \in Callers, id \in 1..MaxShared :
        LET found == ServiceFindById(tasks, id, ListOwner)
            r == IF found.error # "none" THEN found
                 ELSE IF found.task[1].status = "completed"
                 THEN Thrown("BadRequest", "Task is already completed", tasks)
                 ELSE found
            data == StatusOnly("completed")
        IN /\ inFlight[c] = Idle
           /\ inFlight' = [inFlight EXCEPT ![c] =
                  IF r.error # "none" THEN Ended("markAsCompleted", id, data, r)
                  ELSE InProgress("markAsCompleted", "repository.findById", id, data)]
           /\ UNCHANGED <<tasks, nextId, taskCall, guardVars>>

\* TasksService.update up to the await that follows `await this.findById`
CallUpdate ==
    \E c \in Callers, id \in 1..MaxShared, data \in SharedUpdates :
        LET found == ServiceFindById(tasks, id, ListOwner)
        IN /\ inFlight[c] = Idle
           /\ inFlight' = [inFlight EXCEPT ![c] =
                  IF found.error # "none" THEN Ended("update", id, data, found)
                  ELSE IF ~FalsyStr(data.title)
                  THEN InProgress("update", "validateTaskTitle", id, data)
                  ELSE InProgress("update", "repository.findById", id, data)]
           /\ UNCHANGED <<tasks, nextId, taskCall, guardVars>>

\* TasksService.update: `await this.validateTaskTitle(data.title, userId, id)`
ValidateUpdate ==
    \E c \in Callers :
        LET this == inFlight[c]
            valid == ValidateTaskTitle(tasks, this.data.title, ListOwner, Some(this.id))
        IN /\ this.pc = "validateTaskTitle"
           /\ inFlight' = [inFlight EXCEPT ![c] =
                  IF valid.error # "none" THEN Ended(this.op, this.id, this.data, valid)
                  ELSE [this EXCEPT !.pc = "repository.findById"]]
           /\ UNCHANGED <<tasks, nextId, taskCall, guardVars>>

\* TasksService.create up to `await this.tasksRepository.create`
CallCreate ==
    \E c \in Callers, title \in TaskTitles :
        LET data == [title |-> title, description |-> NullStr, status |-> "pending",
                     userId |-> ListOwner]
            valid == ValidateTaskTitle(tasks, title, ListOwner, None)
            creating == {d \in Callers : inFlight[d].pc = "tasks.create"}
        IN /\ inFlight[c] = Idle
           /\ nextId + Cardinality(creating) <= MaxShared
           /\ inFlight' = [inFlight EXCEPT ![c] =
                  IF valid.error # "none" THEN Ended("create", 0, data, valid)
                  ELSE InProgress("create", "tasks.create", 0, data)]
           /\ UNCHANGED <<tasks, nextId, taskCall, guardVars>>

\* TasksRepository.update / delete: `await this.findById(id, userId)`
RepositoryFind ==
    \E c \in Callers :
        LET this == inFlight[c]
        IN /\ this.pc = "repository.findById"
           /\ inFlight' = [inFlight EXCEPT ![c] =
                  IF RepositoryFindById(tasks, this.id, ListOwner) = None
                  THEN Ended(this.op, this.id, this.data,
                             Thrown("NotFound", "Task not found or access denied", tasks))
                  ELSE [this EXCEPT !.pc = IF this.op = "delete" THEN "tasks.delete"
                                            ELSE "tasks.update"]]
           /\ UNCHANGED <<tasks, nextId, taskCall, guardVars>>

\* the statement of the call that writes the table
TasksWrite ==
    \E c \in Callers :
        LET this == inFlight[c]
            r == IF this.pc = "tasks.delete" THEN TasksDelete(tasks, this.id)
                 ELSE IF this.pc = "tasks.update" THEN TasksUpdate(tasks, this.id, this.data)
                 ELSE TasksCreate(tasks, nextId, this.data)
            id == IF this.pc = "tasks.create" THEN nextId ELSE this.id
        IN /\ this.pc \in {"tasks.delete", "tasks.update", "tasks.create"}
           /\ tasks' = r.table
           /\ nextId' = IF this.pc = "tasks.create" /\ r.error = "none"
                        THEN nextId + 1 ELSE nextId
           /\ inFlight' = [inFlight EXCEPT ![c] = Ended(this.op, id, this.data, r)]
           /\ UNCHANGED <<taskCall, guardVars>>

\* the response is sent: the caller may call again
Respond ==
    \E c \in Callers :
        /\ inFlight[c].pc = "done"
        /\ inFlight' = [inFlight EXCEPT ![c] = Idle]
        /\ UNCHANGED <<tasks, nextId, taskCall, guardVars>>

(***************************************************************************)
(* Specifications                                                          *)
(***************************************************************************)
\* the service as shipped: the registry holds the built-in policies
Init ==
    /\ policies = InitializeDefaultPolicies
    /\ phase = "idle"
    /\ endpoint = <<>>
    /\ pending = <<>>
    /\ requestUser = NoUser
    /\ outcome = "none"
    /\ call = NoCall
    /\ trace = <<>>
    /\ tasks = <<>>
    /\ nextId = 1
    /\ taskCall = NoTaskCall
    /\ inFlight = [c \in Callers |-> Idle]

Next ==
    \/ Arrive
    \/ JwtGuardLocal
    \/ JwtGuardIntrospect
    \/ RbacGuard
    \/ AbacGuardBuiltin
    \/ Proceed
    \/ Handle

Spec == Init /\ [][Next]_vars

\* an application that registers custom policies before it serves requests
InitAbac ==
    /\ policies = InitializeDefaultPolicies
    /\ phase = "startup"
    /\ endpoint = <<>>
    /\ pending = <<>>
    /\ requestUser = NoUser
    /\ outcome = "none"
    /\ call = NoCall
    /\ trace = <<>>
    /\ tasks = <<>>
    /\ nextId = 1
    /\ taskCall = NoTaskCall
    /\ inFlight = [c \in Callers |-> Idle]

NextAbac ==
    \/ RegisterPolicy
    \/ ArriveAuthenticated
    \/ AbacGuardCustom
    \/ Handle

SpecAbac == InitAbac /\ [][NextAbac]_vars

\* startup registration of policies that hold one rule each: the policy is
\* satisfied, not satisfied, or its rule throws
RegisterOneRulePolicy ==
    /\ phase = "startup"
    /\ \E p \in {q \in CustomPolicies : Len(q.rules) = 1} :
          policies' = MapSet(policies, p.name, p)
    /\ UNCHANGED <<phase, endpoint, pending, requestUser, outcome, call, trace>>
    /\ UNCHANGED taskVars

NextOrder ==
    \/ RegisterOneRulePolicy
    \/ ArriveAuthenticated
    \/ AbacGuardCustom
    \/ Handle

SpecOrder == InitAbac /\ [][NextOrder]_vars

\* the tasks service, called by one caller at a time
InitTasks == Init

NextTasks ==
    \/ Create
    \/ Update
    \/ Delete
    \/ MarkAsCompleted
    \/ MarkAsInProgress
    \/ MarkAsCancelled
    \/ FindByFilters

SpecTasks == InitTasks /\ [][NextTasks]_vars

\* one owner whose list of tasks grows beyond a page of results
InitListed == Init

NextListed ==
    \/ CreateListed
    \/ UpdateListed

SpecListed == InitListed /\ [][NextListed]_vars

\* the tasks service with two calls in progress
InitShared == Init

NextShared ==
    \/ CallCreate
    \/ CallUpdate
    \/ CallDelete
    \/ CallMarkAsCompleted
    \/ ValidateUpdate
    \/ RepositoryFind
    \/ TasksWrite
    \/ Respond

SpecShared == InitShared /\ [][NextShared]_vars

(***************************************************************************)
(* Properties                                                              *)
(***************************************************************************)
AbacEvaluated == call.guard = "AbacGuard" /\ call.evaluatedPolicies

\* the names the ABAC config of the last call asks for
ConfiguredNames ==
    LET l == OrElse(call.in.config.policies, <<"default">>)
    IN {l[i] : i \in 1..Len(l)}

\* the registered policies among them
EvaluatedSet == {policies[n] : n \in ConfiguredNames \cap DOMAIN policies}

\* all the rules of p return true for the context of the last call
Satisfied(p) == \A i \in 1..Len(p.rules) : RuleResult(p.rules[i], call.ctx) = "true"

SatisfiedDeny == {p \in EvaluatedSet : p.effect = "deny" /\ Satisfied(p)}

SatisfiedAllow == {p \in EvaluatedSet : p.effect = "allow" /\ Satisfied(p)}

\* C1: when the evaluated set holds a satisfied deny-effect policy, the
\* decision of AbacGuard is deny, whatever the priorities, the order of the
\* names, requireAll and the satisfied allow-effect policies.
C1_ExplicitDenyWins ==
    (AbacEvaluated /\ SatisfiedDeny # {})
        => (call.result = "forbidden" /\ outcome = "forbidden" /\ phase = "done")

\* a satisfied deny-effect policy is outranked by a satisfied allow-effect
\* policy, and the request is still denied
C1_Witness ==
    /\ AbacEvaluated
    /\ \E d \in SatisfiedDeny : \E a \in SatisfiedAllow :
          PriorityOf(a) > PriorityOf(d)
    /\ call.in.config.requireAll # "true"
    /\ outcome = "forbidden"

IntrospectionFailed ==
    /\ call.guard = "JwtGuard"
    /\ call.variant = "introspection"
    /\ call.validated
    /\ call.http # "2xx"

\* C2: when the introspection call fails (network error, timeout, non-2xx),
\* introspectToken yields an inactive result, validateToken yields null and
\* the guard ends the request as unauthorized, without a principal.
C2_IntrospectionFailClosed ==
    IntrospectionFailed
        => /\ call.response.active = "false"
           /\ ValidateTokenRemote(call.http, call.data) = None
           /\ call.result = "unauthorized"
           /\ outcome = "unauthorized"
           /\ phase = "done"
           /\ ~requestUser.defined

\* a non-2xx response whose body says the token is active
C2_Witness ==
    /\ IntrospectionFailed
    /\ call.http = "non-2xx"
    /\ call.data # None
    /\ call.data[1].active = "true"
    /\ call.data[1].sub = "u1"
    /\ call.data[1].isActive = "true"
    /\ outcome = "unauthorized"

\* no enabled source of the request of the last JwtGuard call carries a token
NoTokenInRequest ==
    /\ call.guard = "JwtGuard"
    /\ IF call.variant = "local"
       THEN /\ ~(/\ call.cfg.extractFromHeader
                 /\ StartsWith(call.req.authorization, Bearer)
                 /\ Len(call.req.authorization) > Len(Bearer))
            /\ ~(call.cfg.extractFromQuery /\ call.req.query \notin {NullStr, EmptyStr})
            /\ ~(/\ call.cfg.extractFromCookie
                 /\ call.req.cookies.hasName
                 /\ call.req.cookies.value \notin {NullStr, EmptyStr})
       ELSE \/ call.extractFromHeader # "true"
            \/ call.authHeader \in {NullStr, EmptyStr, NonString, Bearer}

\* C3: a request from which no token can be extracted is unauthorized: the
\* guard throws before any validation or introspection, and no later guard
\* or handler runs.
C3_NoTokenUnauthorized ==
    NoTokenInRequest
        => /\ call.result = "unauthorized"
           /\ ~call.validated
           /\ outcome = "unauthorized"
           /\ phase = "done"
           /\ ~requestUser.defined

\* every source is enabled, the header lacks the Bearer prefix, and guards
\* were still to run
C3_Witness ==
    /\ NoTokenInRequest
    /\ call.variant = "local"
    /\ call.cfg.extractFromHeader /\ call.cfg.extractFromQuery /\ call.cfg.extractFromCookie
    /\ call.req.authorization = <<"h">>
    /\ pending # <<>>
    /\ outcome = "unauthorized"

\* C4: if a rule throws while AbacGuard evaluates a request, the decision
\* for that request is deny.
C4_ThrowingRuleDenies ==
    (AbacEvaluated /\ call.eval.threw) => call.result = "forbidden"

\* the caller IP of the last ABAC call is one of the entries of ALLOWED_IPS
IpInAllowList ==
    \E i \in 1..Len(AllowedIps(call.in.env)) :
        AllowedIps(call.in.env)[i] = IpString(call.ctx.ip)

AllowListConfigured == Len(AllowedIps(call.in.env)) > 0

\* C5: with `allowed-ip` in the evaluated set and an allow-list configured,
\* a request from an IP outside the list is denied, and a request from an IP
\* inside the list is allowed when an allow-effect policy of the set is
\* satisfied and requireAll is off.
C5_AllowedIpVeto ==
    (AbacEvaluated /\ "allowed-ip" \in ConfiguredNames /\ AllowListConfigured)
        => /\ ~IpInAllowList => call.result = "forbidden"
           /\ (IpInAllowList /\ SatisfiedAllow # {} /\ call.in.config.requireAll # "true")
                 => call.result = "pass"

RbacChecked == call.guard = "RbacGuard" /\ call.checked

RequiredRoleSet ==
    LET l == call.meta.roles[1] IN {l[i] : i \in 1..Len(l)}

\* C6: a principal holding `super-admin`, with allowSuperAdmin=true, passes
\* RbacGuard whatever the non-empty required roles and requireAll.
C6_SuperAdminOverride ==
    (/\ RbacChecked
     /\ "super-admin" \in call.user.roles
     /\ \/ call.meta.options = None
        \/ call.meta.options # None /\ call.meta.options[1].allowSuperAdmin = "true")
        => call.result = "pass"

\* a principal with the only role super-admin on an endpoint that requires
\* all of two other roles
C6_Witness ==
    /\ RbacChecked
    /\ call.user.roles = {"super-admin"}
    /\ call.meta.roles = Some(<<"admin", "user">>)
    /\ call.meta.options = Some([requireAll |-> "true", allowSuperAdmin |-> "true"])
    /\ call.result = "pass"
    /\ outcome = "none"

\* C7: the RBAC options default independently: on an endpoint declared with
\* RequireAllRoles, which gives requireAll only, allowSuperAdmin is true and
\* a `super-admin` principal passes.
C7_IndependentDefaults ==
    (/\ RbacChecked
     /\ call.meta = RequireAllRoles(call.meta.roles[1])
     /\ "super-admin" \in call.user.roles)
        => call.result = "pass"

\* C8: without the super-admin override and with a non-empty required list,
\* requireAll=true passes iff every required role is among the principal's
\* roles, and requireAll=false (the default) iff at least one is; membership
\* alone decides.
C8_AllOrAnyRoles ==
    (/\ RbacChecked
     /\ \/ "super-admin" \notin call.user.roles
        \/ call.meta.options # None /\ call.meta.options[1].allowSuperAdmin = "false")
        => LET requireAll ==
                   call.meta.options # None /\ call.meta.options[1].requireAll = "true"
           IN IF requireAll
              THEN (call.result = "pass") <=> (RequiredRoleSet \subseteq call.user.roles)
              ELSE (call.result = "pass") <=> (RequiredRoleSet \cap call.user.roles # {})

\* requireAll=true, {admin, user} required, the principal holds admin only
C8_Witness ==
    /\ RbacChecked
    /\ call.meta.options # None
    /\ call.meta.options[1].requireAll = "true"
    /\ RequiredRoleSet = {"admin", "user"}
    /\ call.user.roles = {"admin"}
    /\ call.result = "forbidden"
    /\ outcome = "forbidden"

\* the config of the last ABAC call without the names that are not registered
ResolvingConfig ==
    LET l == OrElse(call.in.config.policies, <<"default">>)
    IN [call.in.config EXCEPT
            !.policies = Some(SelectSeq(l, LAMBDA n : n \in DOMAIN policies))]

\* C9: when none of the configured names (or the implicit "default") is
\* registered the request is denied; names that are not registered do not
\* change the decision when another name is registered.
C9_UnresolvedNames ==
    AbacEvaluated
        => IF ConfiguredNames \cap DOMAIN policies = {}
           THEN call.result = "forbidden" /\ outcome = "forbidden"
           ELSE call.eval.decision
                    = EvaluatePolicies(call.ctx, ResolvingConfig, policies).decision

\* a name that is not registered precedes one that is, and the request passes
C9_Witness ==
    /\ AbacEvaluated
    /\ call.in.config.policies # None
    /\ Len(call.in.config.policies[1]) = 2
    /\ call.in.config.policies[1][1] \notin DOMAIN policies
    /\ call.in.config.policies[1][2] \in DOMAIN policies
    /\ call.result = "pass"

FullEndpoint == <<"JwtGuard", "RbacGuard", "AbacGuard">>

\* the guards that ran for the current request, in the order they ran
GuardsRun == [i \in 1..Len(trace) |-> trace[i].guard]

\* the ABAC rule conditions evaluated for the current request
RulesRun(i) == trace[i].rulesRun

\* C11: on an endpoint guarded by JwtGuard, RbacGuard, AbacGuard the guards
\* run in that order and none runs after a failure: a token failure ends the
\* request as unauthorized with no role or policy evaluated, an RBAC denial
\* ends it as forbidden with no ABAC rule evaluated, and the handler runs
\* only after the three guards allowed.
C11_FixedOrderShortCircuit ==
    endpoint = FullEndpoint
        => /\ Len(trace) <= 3
           /\ GuardsRun = SubSeq(FullEndpoint, 1, Len(trace))
           /\ \A i \in 1..(Len(trace) - 1) : trace[i].result = "pass"
           /\ (trace # <<>> /\ trace[1].result # "pass")
                 => /\ trace[1].result = "unauthorized"
                    /\ outcome = "unauthorized"
                    /\ phase = "done"
                    /\ Len(trace) = 1
           /\ outcome = "unauthorized" => (Len(trace) = 1 /\ ~requestUser.defined)
           /\ (Len(trace) >= 2 /\ trace[2].result # "pass")
                 => /\ trace[2].result = "forbidden"
                    /\ outcome = "forbidden"
                    /\ phase = "done"
                    /\ Len(trace) = 2
                    /\ \A i \in 1..Len(trace) : RulesRun(i) = 0
           /\ (Len(trace) = 3 /\ trace[3].result # "pass")
                 => (outcome = "forbidden" /\ phase = "done")
           /\ outcome = "handled"
                 => (Len(trace) = 3 /\ \A i \in 1..3 : trace[i].result = "pass")

\* RequireAdmin and RequireSameTenant on the endpoint, a principal without
\* the admin role: forbidden by RbacGuard, AbacGuard still pending
C11_Witness ==
    /\ endpoint = FullEndpoint
    /\ call.guard = "RbacGuard"
    /\ call.meta = RolesDecorator(<<"admin">>)
    /\ call.user.roles = {"user"}
    /\ trace = <<[guard |-> "JwtGuard", result |-> "pass", rulesRun |-> 0],
                 [guard |-> "RbacGuard", result |-> "forbidden", rulesRun |-> 0]>>
    /\ pending = <<"AbacGuard">>
    /\ outcome = "forbidden"

JwtValidated == call.guard = "JwtGuard" /\ call.validated

\* the last JwtGuard call had a token that verification or introspection accepts
ValidToken ==
    /\ JwtValidated
    /\ IF call.variant = "local"
       THEN call.verify = "ok"
       ELSE /\ call.http = "2xx"
            /\ call.data # None
            /\ call.data[1].active = "true"
            /\ call.data[1].sub \notin {UNDEF, ""}
            /\ call.data[1].isActive # "false"

\* the user-id claim of the token of the last JwtGuard call
TokenUserId ==
    IF call.variant = "local"
    THEN LET payload == call.in.jwt.payload
             key == IF call.in.env.JWT_USER_ID_CLAIM_KEY \in {UNDEF, ""}
                    THEN "sub" ELSE call.in.env.JWT_USER_ID_CLAIM_KEY
         IN IF key = "uid" /\ payload.uid \notin {UNDEF, ""} THEN payload.uid
            ELSE payload.sub
    ELSE call.data[1].sub

\* the roles of the token of the last JwtGuard call, empty when absent
TokenRoles ==
    LET claim == IF call.variant = "local" THEN call.in.jwt.payload.roles
                 ELSE call.data[1].roles
    IN IF claim = None THEN {} ELSE claim[1]

\* C12: on an endpoint that declares JwtGuard only, a valid token is enough
\* whatever its roles: the guard passes, nothing but the handler ends the
\* request, and request.user has the id of the token's user-id claim and the
\* roles of the token (none when the claim is absent).
C12_JwtOnlyEndpoint ==
    (endpoint = <<"JwtGuard">> /\ ValidToken)
        => /\ call.result = "pass"
           /\ pending = <<>>
           /\ outcome \in {"none", "handled"}
           /\ phase = "done" => outcome = "handled"
           /\ requestUser.defined
           /\ requestUser.id = TokenUserId
           /\ requestUser.roles = TokenRoles

\* a token whose id is under the configured claim key `uid` and whose only
\* role is `user`; the handler ran
C12_Witness ==
    /\ endpoint = <<"JwtGuard">>
    /\ ValidToken
    /\ call.variant = "local"
    /\ call.in.env.JWT_USER_ID_CLAIM_KEY = "uid"
    /\ call.in.jwt.payload.uid = "u2"
    /\ call.in.jwt.payload.sub = "u1"
    /\ requestUser.id = "u2"
    /\ requestUser.roles = {"user"}
    /\ outcome = "handled"

\* C13: with remote introspection a token is accepted iff the response has
\* active=true, a non-empty sub and isActive not false (absent counts as
\* active); otherwise the request ends as unauthorized without a principal.
C13_IntrospectionAcceptance ==
    (JwtValidated /\ call.variant = "introspection")
        => LET r == call.response
               accepted == /\ r.active = "true"
                           /\ r.sub \notin {UNDEF, ""}
                           /\ r.isActive # "false"
           IN /\ (call.result = "pass") <=> accepted
              /\ accepted => (requestUser.defined /\ requestUser.id = r.sub)
              /\ ~accepted
                    => /\ call.result = "unauthorized"
                       /\ outcome = "unauthorized"
                       /\ phase = "done"
                       /\ ~requestUser.defined
                       /\ \/ ValidateTokenRemote(call.http, call.data) = None
                          \/ call.message = "User account is inactive"

\* an active response with a subject and isActive=false: rejected
C13_Witness ==
    /\ JwtValidated
    /\ call.variant = "introspection"
    /\ call.http = "2xx"
    /\ call.response.active = "true"
    /\ call.response.sub = "u1"
    /\ call.response.isActive = "false"
    /\ call.message = "User account is inactive"
    /\ outcome = "unauthorized"

LocalValidated == JwtValidated /\ call.variant = "local"

\* the `exp` claim of the verified token lies at least the clock tolerance
\* in the past
ExpiredBeyondTolerance ==
    /\ call.in.jwt.exp # None
    /\ call.in.now >= call.in.jwt.exp[1] + call.cfg.clockTolerance

\* C14: when NODE_ENV is production the ignoreExpiration option passed to
\* the verification is false whatever JWT_IGNORE_EXPIRATION says, and a
\* token expired beyond the clock tolerance is rejected as unauthorized.
C14_ExpirationInProduction ==
    (LocalValidated /\ call.in.env.NODE_ENV = "production")
        => /\ VerifyOptions(call.cfg).ignoreExpiration = FALSE
           /\ ExpiredBeyondTolerance
                 => /\ call.result = "unauthorized"
                    /\ outcome = "unauthorized"
                    /\ phase = "done"
                    /\ ~requestUser.defined

\* production with JWT_IGNORE_EXPIRATION=true and a token that expired
\* exactly the default tolerance ago: rejected as expired
C14_Witness ==
    /\ LocalValidated
    /\ call.in.env.NODE_ENV = "production"
    /\ call.in.env.JWT_IGNORE_EXPIRATION = "true"
    /\ call.in.env.JWT_CLOCK_TOLERANCE = NullStr
    /\ call.in.jwt.fault = "none"
    /\ call.in.jwt.exp = Some(70)
    /\ ExpiredBeyondTolerance
    /\ call.message = "Access token has expired"
    /\ outcome = "unauthorized"

\* the owning-user id the route parameters of the last ABAC call carry:
\* `userId`, or `user_id` when there is no `userId`
ResourceOwnerId ==
    LET params == call.in.req.params
    IN IF params.userId \notin {UNDEF, ""} THEN params.userId ELSE params.user_id

OwnerMatches ==
    /\ ResourceOwnerId \notin {UNDEF, ""}
    /\ ResourceOwnerId = call.user.id

\* C15: `resource-owner` is satisfied iff the owner id of the resource equals
\* the id of the principal, and not when the route parameters carry no owner
\* id; an endpoint that requires this policy alone admits exactly the owners.
C15_ResourceOwner ==
    AbacEvaluated
        => /\ Satisfied(resourceOwnerPolicy) <=> OwnerMatches
           /\ call.in.config.policies = Some(<<"resource-owner">>)
                 => ((call.result = "pass") <=> OwnerMatches)

\* the tenant id the route parameters of the last ABAC call carry
ResourceTenantId ==
    LET params == call.in.req.params
    IN IF params.tenantId \notin {UNDEF, ""} THEN params.tenantId ELSE params.tenant_id

TenantMatches ==
    \/ call.user.tenantId \in {UNDEF, ""}
    \/ ResourceTenantId \in {UNDEF, ""}
    \/ ResourceTenantId = call.user.tenantId

JwtCalled == call.guard = "JwtGuard"

\* the sources of the request of the last JwtGuard call and whether the
\* configuration enables them
SourceEnabled(source) ==
    IF call.variant = "local"
    THEN CASE source = "header" -> call.in.env.JWT_EXTRACT_FROM_HEADER # "false"
           [] source = "query" -> call.in.env.JWT_EXTRACT_FROM_QUERY = "true"
           [] source = "cookie" -> call.in.env.JWT_EXTRACT_FROM_COOKIE = "true"
    ELSE CASE source = "header" -> call.in.extractFromHeader = "true"
           [] source = "query" -> call.in.extractFromQuery = "true"
           [] source = "cookie" -> call.in.extractFromCookie = "true"

\* the token a source carries, NullStr when it carries none; a header
\* without the Bearer prefix is a token for the introspection variant only
SourceToken(source) ==
    LET header == IF call.variant = "local" THEN call.in.req.authorization
                  ELSE call.in.authHeader
        query == IF call.variant = "local" THEN call.in.req.query ELSE call.in.query
        cookies == IF call.variant = "local" THEN call.in.req.cookies ELSE call.in.cookies
        some(t) == IF t \in {NullStr, EmptyStr, NonString} THEN NullStr ELSE t
    IN CASE source = "header" ->
                IF header \in {NullStr, EmptyStr, NonString} THEN NullStr
                ELSE IF StartsWith(header, Bearer) THEN some(Substring(header, 7))
                ELSE IF call.variant = "local" THEN NullStr
                ELSE header
         [] source = "query" -> some(query)
         [] source = "cookie" ->
                IF cookies.present /\ cookies.hasName THEN some(cookies.value)
                ELSE NullStr

Found(source) == SourceEnabled(source) /\ SourceToken(source) # NullStr

\* C17: the token JwtGuard extracts is the token of the first enabled source
\* that carries one, in the order header, query parameter, cookie; it is
\* `none found` only when no enabled source carries a token.
C17_ExtractionOrder ==
    JwtCalled
        => IF Found("header") THEN call.token = SourceToken("header")
           ELSE IF Found("query") THEN call.token = SourceToken("query")
           ELSE IF Found("cookie") THEN call.token = SourceToken("cookie")
           ELSE FalsyStr(call.token)

(***************************************************************************)
(* Tasks: status transitions and deletion                                  *)
(***************************************************************************)
\* the documented state diagram of a task
ValidTransitions ==
    {<<"pending", "in_progress">>, <<"pending", "cancelled">>,
     <<"in_progress", "completed">>, <<"in_progress", "cancelled">>}

\* the status a mark* operation moves the task to
MarkTarget ==
    [markAsInProgress |-> "in_progress", markAsCompleted |-> "completed",
     markAsCancelled |-> "cancelled"]

\* the last call was made on a stored task by its owner
OnOwnTask == taskCall.op # "none" /\ taskCall.before # None
             /\ taskCall.before[1].userId = taskCall.userId

StoredAsBefore == /\ taskCall.id \in DOMAIN tasks
                  /\ tasks[taskCall.id] = taskCall.before[1]

\* C18: every status change made by markAsInProgress, markAsCompleted or
\* markAsCancelled is one of pending->in_progress, pending->cancelled,
\* in_progress->completed, in_progress->cancelled; a call asking for any other
\* transition is rejected and leaves the task as it was.
C18_AllowedTransitions ==
    (taskCall.op \in DOMAIN MarkTarget /\ OnOwnTask) =>
        IF <<taskCall.before[1].status, MarkTarget[taskCall.op]>> \in ValidTransitions
        THEN TRUE
        ELSE taskCall.error # "none" /\ StoredAsBefore

\* C19: an update by the owner whose data carries a status that is not an
\* allowed transition from the task's current status is rejected with a
\* bad-request error and the stored task is unchanged.
C19_UpdateValidatesTransitions ==
    (/\ taskCall.op = "update"
     /\ OnOwnTask
     /\ ~Falsy(taskCall.data.status)
     /\ taskCall.data.status # taskCall.before[1].status
     /\ <<taskCall.before[1].status, taskCall.data.status>> \notin ValidTransitions)
        => taskCall.error = "BadRequest" /\ StoredAsBefore

DeletedCompleted ==
    taskCall.op = "delete" /\ taskCall.before # None
    /\ taskCall.before[1].status = "completed"

\* C20: delete on a completed task is rejected (with a bad-request error when
\* the caller owns the task) and the task remains stored; no step of the
\* service removes a task whose status is completed.
C20_CompletedNeverDeleted ==
    /\ [](DeletedCompleted =>
             /\ taskCall.error # "none"
             /\ StoredAsBefore
             /\ OnOwnTask => taskCall.error = "BadRequest"
                             /\ taskCall.message = "Cannot delete completed tasks")
    /\ [][\A id \in DOMAIN tasks :
             tasks[id].status = "completed" => id \in DOMAIN tasks']_vars

C20_Witness ==
    /\ DeletedCompleted
    /\ OnOwnTask
    /\ taskCall.error = "BadRequest"
    /\ StoredAsBefore

(***************************************************************************)
(* Tasks: titles and owners                                                *)
(***************************************************************************)
SameTitle(t, u) == ToLowerCase(t.title) = ToLowerCase(u.title)

\* C21: no two stored tasks of the same owner have titles that are equal
\* ignoring case, however many tasks of the owner hold the title as a
\* substring.
C21_TitleUniquePerOwner ==
    \A i \in DOMAIN tasks, j \in DOMAIN tasks :
        (i # j /\ tasks[i].userId = tasks[j].userId) => ~SameTitle(tasks[i], tasks[j])

WriteOps == {"update", "delete", "markAsCompleted", "markAsInProgress", "markAsCancelled"}

\* C22: every task a call returns, modifies or deletes belongs to the user
\* id the call was made with; a call on a task of another user reports not
\* found and leaves the task as it was; no call changes the userId of a task.
C22_ScopedToCaller ==
    /\ taskCall.op = "findByFilters" =>
          \A i \in 1..Len(taskCall.returned) :
              taskCall.returned[i].userId = taskCall.userId
    /\ (taskCall.op \in WriteOps /\ taskCall.before # None) =>
          /\ taskCall.before[1].userId # taskCall.userId =>
                taskCall.error = "NotFound" /\ StoredAsBefore
          /\ taskCall.id \in DOMAIN tasks =>
                tasks[taskCall.id].userId = taskCall.before[1].userId

(***************************************************************************)
(* ABAC decorators                                                         *)
(***************************************************************************)
\* the policy names the decorators of the handler ask for
AnnotatedNames ==
    LET stack == call.in.decorators
        named == {d \in {stack[k] : k \in 1..Len(stack)} : d.policies # None}
    IN UNION {{d.policies[1][i] : i \in 1..Len(d.policies[1])} : d \in named}

\* C23: on a handler that carries an action decorator and a policy decorator,
\* in either order, AbacGuard evaluates the policies the policy decorator
\* names, and a principal who fails one of them is denied.
C23_AnnotationsEnforced ==
    (AbacEvaluated /\ Len(call.in.decorators) = 2) =>
        \A n \in AnnotatedNames :
            /\ Includes(call.eval.names, n)
            /\ ~Satisfied(policies[n]) => call.result = "forbidden"

(***************************************************************************)
(* Principal attached by JwtGuard                                          *)
(***************************************************************************)
\* C24: every principal that JwtGuard attaches to a request has a defined,
\* non-empty id, under both validation strategies; a token or introspection
\* response without user id ends as unauthorized.
C24_PrincipalHasId ==
    /\ requestUser.defined => ~Falsy(requestUser.id)
    /\ (JwtCalled /\ call.result = "pass") => ~Falsy(call.user.id)

(***************************************************************************)
(* Policy registry                                                         *)
(***************************************************************************)
BuiltinFive == {"default", "business-hours", "resource-owner", "same-tenant", "allowed-ip"}

C26_UserSetOnlyOnSuccess ==
    /\ [][(call' # call /\ call'.guard = "JwtGuard" /\ call'.result # "pass")
             => call'.result = "unauthorized" /\ requestUser' = requestUser]_vars
    /\ []((JwtCalled /\ call.result = "pass")
             => /\ ValidToken
                /\ requestUser = call.user
                /\ requestUser.defined
                /\ requestUser.id = TokenUserId
                /\ requestUser.roles = TokenRoles)

\* an expired token with a complete payload was refused
C26_Witness ==
    /\ JwtCalled
    /\ call.variant = "local"
    /\ call.verify = "TokenExpiredError"
    /\ call.in.jwt.payload.sub = "u1"
    /\ call.result = "unauthorized"
    /\ ~requestUser.defined

(***************************************************************************)
(* Tasks: calls in progress at the same time                               *)
(***************************************************************************)
\* C27: whatever the interleaving of delete with markAsCompleted or with an
\* update to completed on the same task, no statement removes a row whose
\* stored status is completed.
C27_DeleteAtomicWithStatus ==
    [][\A id \in DOMAIN tasks \ DOMAIN tasks' : tasks[id].status # "completed"]_vars

\* the call of caller c ended because its title is taken
RejectedForTitle(c) ==
    /\ inFlight[c].op \in {"create", "update"}
    /\ inFlight[c].pc = "done"
    /\ inFlight[c].message \in {UniqueViolation(tasks).message,
                                "A task with the title already exists"}

\* C28: with calls in progress at the same time no two tasks of an owner
\* hold titles equal ignoring case, and a create or update that loses to
\* another call with the same title ends with a conflict.
C28_ConcurrentTitleUnique ==
    /\ \A i \in DOMAIN tasks, j \in DOMAIN tasks :
          (i # j /\ tasks[i].userId = tasks[j].userId)
              => ToLowerCase(tasks[i].title) # ToLowerCase(tasks[j].title)
    /\ \A c \in Callers : RejectedForTitle(c) => inFlight[c].error = "Conflict"

(***************************************************************************)
(* ABAC decision                                                           *)
(***************************************************************************)
\* C29: an allow decision of AbacGuard implies that at least one allow-effect
\* policy of the evaluated set had all its rules true, for every policy list
\* and requireAll.
C29_AllowNeedsAllowPolicy ==
    (AbacEvaluated /\ call.result = "pass") => SatisfiedAllow # {}

\* the configured names in another order
Reordered(names) ==
    {[i \in 1..Len(names) |-> names[f[i]]] : f \in Permutations(1..Len(names))}

\* the registered policies among the configured names
NamedPolicies == ConfiguredNames \cap DOMAIN policies

\* priorities for the named policies: none, or a different one for each
Rankings ==
    {[n \in NamedPolicies |-> None]}
    \cup {[n \in NamedPolicies |-> Some(f[n])] :
             f \in {g \in [NamedPolicies -> 1..Cardinality(NamedPolicies)] :
                       \A m, n \in NamedPolicies : m # n => g[m] # g[n]}}

Reprioritised(registry, ranking) ==
    [n \in DOMAIN registry |->
        IF n \in DOMAIN ranking THEN [registry[n] EXCEPT !.priority = ranking[n]]
        ELSE registry[n]]

\* C30: for a fixed request and requireAll, the decision of AbacGuard is the
\* same for every order of the configured policy names and every assignment
\* of priorities to the policies, also when rules throw.
C30_OrderIndependent ==
    AbacEvaluated =>
        \A names \in Reordered(OrElse(call.in.config.policies, <<"default">>)),
           ranking \in Rankings :
            AbacCall([call.in EXCEPT !.config.policies = Some(names)], call.user,
                     Reprioritised(policies, ranking)).result = call.result

\* two policies evaluated in the order of their priorities, not of the
\* configuration; a rule of one of them threw; the request was allowed
C30_Witness ==
    /\ AbacEvaluated
    /\ Len(call.eval.sorted) = 2
    /\ call.eval.sorted # call.eval.resolved
    /\ call.eval.threw
    /\ call.result = "pass"

====
